---- MODULE Spec2Model ----
(***************************************************************************)
(* Model of scripts/fetch_7shifts_to_firestore.py: one run of main(), i.e. *)
(* configuration check, fetch_sales over the candidate endpoints, the      *)
(* per-date accumulation with pick, build_week_shape for the projected and *)
(* the actual map, the delta rows and the merge write to Firestore.        *)
(*                                                                         *)
(* Numbers.  TLC's integers are 32 bits wide, Python's float has a 53-bit  *)
(* mantissa and decimal.Decimal works with 28 digits, so numbers are kept  *)
(* as fixed-length sequences of base-10^4 limbs ("Big", least significant  *)
(* limb first).                                                            *)
(*   - a Python float is its exact value counted in eighths (2^-3); every  *)
(*     float the model feeds in is a non-negative multiple of 1/8, and     *)
(*     float addition rounds the exact sum to 53 significant bits, ties to *)
(*     even, as IEEE-754 binary64 does;                                    *)
(*   - a Decimal is a sign and a magnitude counted in thousandths;         *)
(*   - money strings, dates and URLs are real strings.                     *)
(***************************************************************************)
EXTENDS Integers, Sequences, FiniteSets, TLC

VARIABLES
    environ,      \* os.environ: variable name -> string, or None when unset
    now_local,    \* the local date main() reads from the clock
    store,        \* Firestore: document path -> document (field path -> leaf)
    pc,           \* position of the run inside main()
    requests,     \* URLs handed to requests.get so far, in order
    idx,          \* fetch_sales: index into urls of the current candidate
    r,            \* fetch_sales: outcome of the current requests.get
    last_error,   \* fetch_sales: last_error
    rows,         \* main: rows returned by fetch_sales
    actual_map,   \* main: actual_map
    proj_map,     \* main: proj_map
    proj_week,    \* main: proj_week
    actual_week,  \* main: actual_week
    delta,        \* main: delta
    outcome       \* how the process ended: exit code or uncaught exception

vars == <<environ, now_local, store, pc, requests, idx, r, last_error, rows,
          actual_map, proj_map, proj_week, actual_week, delta, outcome>>

None == [k |-> "None"]

(***************************************************************************)
(* Big naturals: NLimbs limbs of base 10^4, least significant first.       *)
(***************************************************************************)
Base == 10^4

\* decimal's default context precision, in digits
DecimalPrec == 28

NLimbs == DecimalPrec \div 4

LimbIdx == 1..NLimbs

\* the Big of a natural small enough for TLC's own integers
RECURSIVE LimbsOf(_, _)
LimbsOf(n, i) ==
    IF i > NLimbs THEN <<>> ELSE <<n % Base>> \o LimbsOf(n \div Base, i + 1)

BigOf(n) == LimbsOf(n, 1)

BigZero == BigOf(0)

RECURSIVE AddFrom(_, _, _, _)
AddFrom(a, b, i, carry) ==
    IF i > NLimbs THEN <<>>
    ELSE <<(a[i] + b[i] + carry) % Base>>
         \o AddFrom(a, b, i + 1, (a[i] + b[i] + carry) \div Base)

BigAdd(a, b) == AddFrom(a, b, 1, 0)

RECURSIVE SubFrom(_, _, _, _)
SubFrom(a, b, i, borrow) ==
    IF i > NLimbs THEN <<>>
    ELSE <<(a[i] - b[i] - borrow + Base) % Base>>
         \o SubFrom(a, b, i + 1, IF a[i] - b[i] - borrow < 0 THEN 1 ELSE 0)

\* a - b, for a >= b
BigSub(a, b) == SubFrom(a, b, 1, 0)

RECURSIVE BigCmpFrom(_, _, _)
BigCmpFrom(a, b, i) ==
    IF i = 0 THEN 0
    ELSE IF a[i] < b[i] THEN -1
    ELSE IF a[i] > b[i] THEN 1
    ELSE BigCmpFrom(a, b, i - 1)

BigLess(a, b) == BigCmpFrom(a, b, NLimbs) < 0

RECURSIVE MulFrom(_, _, _, _)
MulFrom(a, k, i, carry) ==
    IF i > NLimbs THEN <<>>
    ELSE <<(a[i] * k + carry) % Base>>
         \o MulFrom(a, k, i + 1, (a[i] * k + carry) \div Base)

\* a * k, for a small k
BigMulSmall(a, k) == MulFrom(a, k, 1, 0)

\* long division by a small k, from the top limb down
RECURSIVE DivFrom(_, _, _, _)
DivFrom(a, k, i, rem) ==
    IF i = 0 THEN <<>>
    ELSE DivFrom(a, k, i - 1, (rem * Base + a[i]) % k)
         \o <<(rem * Base + a[i]) \div k>>

BigDivSmall(a, k) == DivFrom(a, k, NLimbs, 0)

RECURSIVE ModFrom(_, _, _, _)
ModFrom(a, k, i, rem) ==
    IF i = 0 THEN rem ELSE ModFrom(a, k, i - 1, (rem * Base + a[i]) % k)

BigModSmall(a, k) == ModFrom(a, k, NLimbs, 0)

\* 2^n, thirteen bits at a time
RECURSIVE BigPow2(_)
BigPow2(n) ==
    IF n <= 13 THEN BigOf(2^n) ELSE BigMulSmall(BigPow2(n - 13), 2^13)

(***************************************************************************)
(* Python float: the exact value in eighths, a Big.                        *)
(***************************************************************************)
\* significant bits of a binary64 mantissa
MantBits == 53

EighthsPerUnit == 2^3

\* float(n) of a small integer n, and of n/8
FloatOfInt(n) == BigOf(n * EighthsPerUnit)

FloatOfEighths(n) == BigOf(n)

TwoToMant == BigPow2(MantBits)

\* how many low bits of n do not fit the mantissa
RECURSIVE ExcessBits(_)
ExcessBits(n) ==
    IF BigLess(n, TwoToMant) THEN 0 ELSE 1 + ExcessBits(BigDivSmall(n, 2))

\* n rounded to MantBits significant bits, ties to the even mantissa
RoundToDouble(n) ==
    LET s == ExcessBits(n) IN
    IF s = 0 THEN n
    ELSE LET q    == BigDivSmall(n, 2^s)
             rem  == BigModSmall(n, 2^s)
             half == 2^(s-1)
             up   == rem > half \/ (rem = half /\ BigModSmall(q, 2) = 1)
         IN BigMulSmall(IF up THEN BigAdd(q, BigOf(1)) ELSE q, 2^s)

\* x + y on floats
FloatAdd(x, y) == RoundToDouble(BigAdd(x, y))

(***************************************************************************)
(* Decimal strings.  Digits are read and written one character at a time.  *)
(***************************************************************************)
IsDigit(c) == \E d \in 0..9 : ToString(d) = c

DigitOf(c) == CHOOSE d \in 0..9 : ToString(d) = c

RECURSIVE AllDigits(_)
AllDigits(s) == s = "" \/ (IsDigit(Head(s)) /\ AllDigits(Tail(s)))

\* the number written by a string of at most four digits
RECURSIVE SmallValue(_, _)
SmallValue(s, acc) ==
    IF s = "" THEN acc ELSE SmallValue(Tail(s), acc * 10 + DigitOf(Head(s)))

\* the Big written by a string of digits: limb i is its i-th group of four
\* digits from the right
RECURSIVE DigitLimbs(_, _)
DigitLimbs(s, i) ==
    IF i > NLimbs THEN <<>>
    ELSE LET hi == Len(s) - 4 * (i - 1)
             lo == IF hi > 4 THEN hi - 3 ELSE 1
         IN <<IF hi < 1 THEN 0 ELSE SmallValue(SubSeq(s, lo, hi), 0)>>
            \o DigitLimbs(s, i + 1)

DigitsValue(s) == DigitLimbs(s, 1)

\* index of the first "." of s, or Len(s) + 1
RECURSIVE DotPos(_, _)
DotPos(s, i) ==
    IF i > Len(s) \/ SubSeq(s, i, i) = "." THEN i ELSE DotPos(s, i + 1)

RECURSIVE Zeros(_)
Zeros(n) == IF n = 0 THEN "" ELSE "0" \o Zeros(n - 1)

\* [ok, neg, mag]: the sign and the thousandths written by the numeral s,
\* [-]digits[.digits] with at most three fractional digits; ok is FALSE for
\* text that is no numeral (float() and Decimal() raise on it)
ParseNumeral(s) ==
    LET neg  == Len(s) > 0 /\ Head(s) = "-"
        body == IF neg THEN Tail(s) ELSE s
        dot  == DotPos(body, 1)
        ip   == SubSeq(body, 1, dot - 1)
        fp   == SubSeq(body, dot + 1, Len(body))
        ok   == /\ AllDigits(ip) /\ AllDigits(fp)
                /\ Len(ip) + Len(fp) > 0
                /\ Len(fp) <= 3
    IN IF ok
       THEN [ok |-> TRUE, neg |-> neg,
             mag |-> DigitsValue(ip \o fp \o Zeros(3 - Len(fp)))]
       ELSE [ok |-> FALSE, neg |-> FALSE, mag |-> BigZero]

Pad2(n) == (IF n < 10 THEN "0" ELSE "") \o ToString(n)

Pad4(n) ==
    (IF n < 10 THEN "000" ELSE IF n < 100 THEN "00"
     ELSE IF n < 1000 THEN "0" ELSE "") \o ToString(n)

\* the limbs i..1 of a, each written with four digits
RECURSIVE LimbsText(_, _)
LimbsText(a, i) == IF i = 0 THEN "" ELSE Pad4(a[i]) \o LimbsText(a, i - 1)

\* the highest non-zero limb of a, or 1
RECURSIVE TopLimb(_, _)
TopLimb(a, i) == IF i = 1 \/ a[i] # 0 THEN i ELSE TopLimb(a, i - 1)

\* a written in decimal without leading zeros
BigText(a) ==
    LET t == TopLimb(a, NLimbs) IN ToString(a[t]) \o LimbsText(a, t - 1)

(***************************************************************************)
(* decimal.Decimal: sign and magnitude in thousandths.                     *)
(***************************************************************************)
Dec(neg, mag) == [neg |-> neg, mag |-> mag]

DecZero == Dec(FALSE, BigZero)

\* Decimal(s) for a numeral s
DecOfStr(s) == LET p == ParseNumeral(s) IN Dec(p.neg, p.mag)

\* Decimal(str(x)) for a float x.  str gives the shortest numeral that reads
\* back as x; for the floats of the model (multiples of 1/8 below 2^46, and
\* integers from 2^52 to 2^54) that numeral is the exact value of x, which
\* has at most three fractional digits: x eighths are 125 x thousandths.
DecOfFloat(x) == Dec(FALSE, BigMulSmall(x, 1000 \div EighthsPerUnit))

\* a + b, exact (the sums of the model stay within DecimalPrec digits)
DecAdd(a, b) ==
    IF a.neg = b.neg THEN Dec(a.neg, BigAdd(a.mag, b.mag))
    ELSE IF a.mag = b.mag THEN DecZero
    ELSE IF BigLess(a.mag, b.mag) THEN Dec(b.neg, BigSub(b.mag, a.mag))
    ELSE Dec(a.neg, BigSub(a.mag, b.mag))

\* a - b
DecSub(a, b) == DecAdd(a, Dec(~b.neg, b.mag))

(***************************************************************************)
(* Python values that may be None: None, a string, a number (a float).     *)
(***************************************************************************)
Str(s) == [k |-> "str", s |-> s]

Num(x) == [k |-> "num", v |-> x]

IsStr(v) == v.k = "str"

IsNum(v) == v.k = "num"

FloatZero == BigZero

\* bool(v): None, "" and 0 are false
Truthy(v) ==
    /\ v # None
    /\ ~(IsStr(v) /\ v.s = "")
    /\ ~(IsNum(v) /\ v.v = FloatZero)

\* d.get(key)
Get(d, key) == IF key \in DOMAIN d THEN d[key] ELSE None

\* a or b
Or(a, b) == IF Truthy(a) THEN a ELSE b

(***************************************************************************)
(* env, money, start_of_week_monday, to_iso                                *)
(***************************************************************************)
env(name, default) ==
    LET v == Get(environ, name) IN
    IF v # None /\ v # Str("") THEN v ELSE default

\* Decimal.quantize(Decimal('0.01')) under the default context: the cents of
\* x, a half going to the even cent
QuantizeCents(x) ==
    LET q   == BigDivSmall(x.mag, 10)
        rem == BigModSmall(x.mag, 10)
        up  == rem > 5 \/ (rem = 5 /\ BigModSmall(q, 2) = 1)
    IN IF up THEN BigAdd(q, BigOf(1)) ELSE q

\* money(x) for a Decimal x.  Its except branches ("0.00") are taken when
\* Decimal(x) or quantize raises, which no Decimal of the model makes them do
\* (quantize raises when the result needs more than DecimalPrec digits).
money(x) ==
    LET cents == QuantizeCents(x) IN
    (IF x.neg THEN "-" ELSE "")
        \o BigText(BigDivSmall(cents, 100)) \o "."
        \o Pad2(BigModSmall(cents, 100))

Date(y, m, d) == [y |-> y, m |-> m, d |-> d]

IsLeap(y) == y % 4 = 0 /\ (y % 100 # 0 \/ y % 400 = 0)

DaysInMonth(y, m) ==
    IF m = 2 THEN (IF IsLeap(y) THEN 29 ELSE 28)
    ELSE IF m \in {4, 6, 9, 11} THEN 30 ELSE 31

RECURSIVE DaysBeforeMonth(_, _)
DaysBeforeMonth(y, m) ==
    IF m = 1 THEN 0 ELSE DaysBeforeMonth(y, m - 1) + DaysInMonth(y, m - 1)

\* date.toordinal()
Ordinal(date) ==
    LET y1 == date.y - 1 IN
    y1 * 365 + y1 \div 4 - y1 \div 100 + y1 \div 400
        + DaysBeforeMonth(date.y, date.m) + date.d

\* date.weekday(): Monday = 0 .. Sunday = 6
Weekday(date) == (Ordinal(date) + 6) % 7

NextDay(date) ==
    IF date.d < DaysInMonth(date.y, date.m) THEN Date(date.y, date.m, date.d + 1)
    ELSE IF date.m < 12 THEN Date(date.y, date.m + 1, 1)
    ELSE Date(date.y + 1, 1, 1)

PrevDay(date) ==
    IF date.d > 1 THEN Date(date.y, date.m, date.d - 1)
    ELSE IF date.m > 1
         THEN Date(date.y, date.m - 1, DaysInMonth(date.y, date.m - 1))
    ELSE Date(date.y - 1, 12, 31)

\* date + timedelta(days=n) and date - timedelta(days=n), n >= 0
RECURSIVE PlusDays(_, _)
PlusDays(date, n) == IF n = 0 THEN date ELSE PlusDays(NextDay(date), n - 1)

RECURSIVE MinusDays(_, _)
MinusDays(date, n) == IF n = 0 THEN date ELSE MinusDays(PrevDay(date), n - 1)

start_of_week_monday(now) == MinusDays(now, Weekday(now))

\* strftime("%Y-%m-%d")
to_iso(date) == Pad4(date.y) \o "-" \o Pad2(date.m) \o "-" \o Pad2(date.d)

(***************************************************************************)
(* pick and build_week_shape                                               *)
(***************************************************************************)
\* whether float(v), or else float(str(v)), returns instead of raising
Coercible(v) == IsNum(v) \/ (IsStr(v) /\ ParseNumeral(v.s).ok)

\* float(v) for a coercible v; a numeral of the model is a non-negative
\* multiple of 1/8, so its thousandths are a multiple of 125
PyFloat(v) ==
    IF IsNum(v) THEN v.v
    ELSE BigDivSmall(ParseNumeral(v.s).mag, 1000 \div EighthsPerUnit)

\* pick with the bug of settling on the first alias that is present and not
\* None, whether or not its value parses
RECURSIVE pick_first_present(_, _, _)
pick_first_present(row, keys, default) ==
    IF keys = <<>> THEN FloatOfInt(default)
    ELSE IF Head(keys) \in DOMAIN row /\ row[Head(keys)] # None
         THEN (IF Coercible(row[Head(keys)]) THEN PyFloat(row[Head(keys)])
               ELSE FloatOfInt(default))
    ELSE pick_first_present(row, Tail(keys), default)

RECURSIVE pick(_, _, _)
pick(row, keys, default) ==
    IF keys = <<>> THEN FloatOfInt(default)
    ELSE IF /\ Head(keys) \in DOMAIN row
            /\ row[Head(keys)] # None
            /\ Coercible(row[Head(keys)])
         THEN PyFloat(row[Head(keys)])
    ELSE pick(row, Tail(keys), default)

keys == <<"mon", "tue", "wed", "thu", "fri", "sat", "sun">>

\* the loop of build_week_shape from its i-th pass on, then the total slot
RECURSIVE WeekLoop(_, _, _, _, _)
WeekLoop(monday, day_map, i, out, total) ==
    IF i > Len(keys) THEN ("total" :> money(total)) @@ out
    ELSE LET iso == to_iso(PlusDays(monday, i - 1))
             val == DecOfFloat(IF iso \in DOMAIN day_map THEN day_map[iso]
                               ELSE FloatZero)
         IN WeekLoop(monday, day_map, i + 1,
                     (keys[i] :> money(val)) @@ out, DecAdd(total, val))

\* build_week_shape with the bug of adding up the formatted day strings
RECURSIVE WeekLoopRounded(_, _, _, _, _)
WeekLoopRounded(monday, day_map, i, out, total) ==
    IF i > Len(keys) THEN ("total" :> money(total)) @@ out
    ELSE LET iso == to_iso(PlusDays(monday, i - 1))
             val == DecOfFloat(IF iso \in DOMAIN day_map THEN day_map[iso]
                               ELSE FloatZero)
         IN WeekLoopRounded(monday, day_map, i + 1,
                            (keys[i] :> money(val)) @@ out,
                            DecAdd(total, DecOfStr(money(val))))

build_week_shape_rounded(monday, day_map) ==
    WeekLoopRounded(monday, day_map, 1, <<>>, DecZero)

\* build_week_shape with the bug of totalling every date of the map
RECURSIVE SumOfMap(_, _)
SumOfMap(day_map, dates) ==
    IF dates = {} THEN DecZero
    ELSE LET d == CHOOSE x \in dates : TRUE IN
         DecAdd(DecOfFloat(day_map[d]), SumOfMap(day_map, dates \ {d}))

build_week_shape_whole_map(monday, day_map) ==
    ("total" :> money(SumOfMap(day_map, DOMAIN day_map)))
        @@ WeekLoop(monday, day_map, 1, <<>>, DecZero)

build_week_shape(monday, day_map) ==
    WeekLoop(monday, day_map, 1, <<>>, DecZero)

(***************************************************************************)
(* main(): configuration and week window                                   *)
(***************************************************************************)
API_ROOT == "https://api.7shifts.com/v2"

token == env("SEVENSHIFTS_TOKEN", None)

company_id == env("COMPANY_ID", None)

location_id == env("LOCATION_ID", None)

workspace == env("WORKSPACE", Str("tulia"))

\* the check of line 112 with the bug of leaving out location_id
MissingEnvNoLocation == ~Truthy(token) \/ ~Truthy(company_id)

\* not token or not company_id or not location_id
MissingEnv == ~Truthy(token) \/ ~Truthy(company_id) \/ ~Truthy(location_id)

monday == start_of_week_monday(now_local)

sunday == PlusDays(monday, 6)

start_iso == to_iso(monday)

end_iso == to_iso(sunday)

\* f"{v}" for a string or None
Fmt(v) == IF v = None THEN "None" ELSE v.s

doc_path == "workspaces/" \o Fmt(workspace) \o "/weeks/" \o start_iso

(***************************************************************************)
(* fetch_sales                                                             *)
(***************************************************************************)
urls ==
    LET range == "/sales?start=" \o start_iso \o "&end=" \o end_iso IN
    << API_ROOT \o "/company/" \o Fmt(company_id) \o "/locations/"
           \o Fmt(location_id) \o range,
       API_ROOT \o "/locations/" \o Fmt(location_id) \o range >>

\* parsed JSON: a list, a dict, or something else; NotJson is a body on which
\* r.json() raises
JList(items) == [t |-> "list", v |-> items]

JDict(fields) == [t |-> "dict", v |-> fields]

JText(s) == [t |-> "str", v |-> s]

NotJson == [t |-> "invalid", v |-> "<html>Bad gateway</html>"]

IsList(js) == js.t = "list"

IsDict(js) == js.t = "dict"

\* isinstance(js, dict) and key in js and isinstance(js[key], list)
HasList(js, key) == IsDict(js) /\ key \in DOMAIN js.v /\ IsList(js.v[key])

\* whether lines 65-71 return, and what they return
Recognized(js) == HasList(js, "data") \/ IsList(js) \/ HasList(js, "sales")

\* the envelope tests with the bug of looking at "sales" first
NormalizeSalesFirst(js) ==
    IF HasList(js, "sales") THEN js.v["sales"].v
    ELSE IF IsList(js) THEN js.v
    ELSE js.v["data"].v

Normalize(js) ==
    IF HasList(js, "data") THEN js.v["data"].v
    ELSE IF IsList(js) THEN js.v
    ELSE js.v["sales"].v

\* outcomes of requests.get: an exception, or a response
Raised(msg) == [kind |-> "raise", msg |-> msg]

Response(status, text, js) ==
    [kind |-> "http", status |-> status, text |-> text, js |-> js]

\* whether the pass of the loop over this outcome returns
Succeeds(resp) ==
    resp.kind = "http" /\ resp.status = 200 /\ Recognized(resp.js)

\* what a pass that does not return stores in last_error
ErrorText(url, resp) ==
    IF resp.kind = "raise" THEN url \o " -> " \o resp.msg
    ELSE IF resp.status # 200
         THEN url \o " -> HTTP " \o ToString(resp.status) \o " " \o resp.text
    ELSE IF resp.js = NotJson
         THEN url \o " -> Expecting value: line 1 column 1 (char 0)"
    ELSE url \o " -> Unexpected response shape from " \o url \o ": "
             \o resp.text

AllFailed(err) == "All sales endpoints failed. Last error: " \o err

(***************************************************************************)
(* main(): accumulation, delta, upsert                                     *)
(***************************************************************************)
ActualKeys ==
    <<"actual", "actual_sales", "actual_total", "actuals", "actuals_total">>

ProjectedKeys ==
    <<"projected", "projected_sales", "projected_total", "forecast",
      "forecast_total">>

\* r.get("date") or r.get("business_date") or r.get("day") or r.get("sales_date")
DateOf(row) ==
    Or(Get(row, "date"),
       Or(Get(row, "business_date"), Or(Get(row, "day"), Get(row, "sales_date"))))

\* day_map.get(key, 0.0) + v stored under key
Accumulated(day_map, key, v) ==
    (key :> FloatAdd(IF key \in DOMAIN day_map THEN day_map[key] ELSE FloatZero,
                     v)) @@ day_map

\* one pass of the loop over rows, on maps = <<actual_map, proj_map>>
AddRow(row, maps) ==
    IF ~Truthy(DateOf(row)) THEN maps
    ELSE << Accumulated(maps[1], DateOf(row).s, pick(row, ActualKeys, 0)),
            Accumulated(maps[2], DateOf(row).s, pick(row, ProjectedKeys, 0)) >>

\* the loop over rows from its i-th row on
RECURSIVE AddRows(_, _, _)
AddRows(rs, i, maps) ==
    IF i > Len(rs) THEN maps ELSE AddRows(rs, i + 1, AddRow(rs[i], maps))

\* the delta rows with the bug of subtracting the wrong way round
DeltaOfSwapped(actual, proj) ==
    [k \in DOMAIN actual |-> money(DecSub(DecOfStr(proj[k]), DecOfStr(actual[k])))]

\* the delta rows
DeltaOf(actual, proj) ==
    [k \in DOMAIN actual |-> money(DecSub(DecOfStr(actual[k]), DecOfStr(proj[k])))]

\* the payload, as field path -> leaf
Shape(prefix, week) ==
    [p \in {prefix \o <<k>> : k \in DOMAIN week} |-> week[p[Len(p)]]]

Payload(updatedAt) ==
    (<<"meta", "updatedAt">> :> updatedAt)
        @@ (<<"meta", "source">> :> "7shifts")
        @@ Shape(<<"data", "proj_sales">>, proj_week)
        @@ Shape(<<"data", "actual_sales">>, actual_week)
        @@ Shape(<<"data", "sales_delta">>, delta)

IsPrefix(p, q) == Len(p) <= Len(q) /\ SubSeq(q, 1, Len(p)) = p

\* doc_ref.set(payload) without merge=True: the payload replaces the document
SetOverwrite(doc, payload) == payload

\* doc_ref.set(payload, merge=True): the leaves of the payload are written,
\* every other field of the document stays
SetMerge(doc, payload) ==
    LET kept == {q \in DOMAIN doc :
                    \A p \in DOMAIN payload : ~IsPrefix(p, q) /\ ~IsPrefix(q, p)}
    IN [p \in kept \cup DOMAIN payload |->
            IF p \in DOMAIN payload THEN payload[p] ELSE doc[p]]

(***************************************************************************)
(* Inputs of a run: the environment, the clock, what the API answers and   *)
(* what the destination document held.                                     *)
(***************************************************************************)
\* longest list of rows a response carries
MaxRows == 3

EnvNames == {"SEVENSHIFTS_TOKEN", "COMPANY_ID", "LOCATION_ID", "WORKSPACE"}

Environments ==
    {  ("SEVENSHIFTS_TOKEN" :> t) @@ ("COMPANY_ID" :> c)
         @@ ("LOCATION_ID" :> l) @@ ("WORKSPACE" :> w) :
       t \in {None, Str(""), Str("s3cr3t")},
       c \in {None, Str(""), Str("42")},
       l \in {None, Str(""), Str("7")},
       w \in {None, Str("acme")} }

\* a Friday whose week holds 29 February, and the Sunday of the next week
Todays == {Date(2024, 3, 1), Date(2024, 3, 10)}

UtcNows == {"2024-03-01T05:00:07Z", "2024-03-10T23:59:59Z"}

\* the float 2^52, above which floats are a whole unit apart
TwoTo52 == BigMulSmall(BigPow2(52), EighthsPerUnit)

RecordSet ==
    { ("date" :> Str("2024-03-04")) @@ ("actual" :> Num(TwoTo52))
          @@ ("projected" :> Num(FloatOfInt(100))),
      ("date" :> Str("2024-03-04")) @@ ("actual" :> Num(FloatOfEighths(4)))
          @@ ("projected" :> Str("0.625")),
      ("date" :> Str("")) @@ ("business_date" :> Str("2024-03-05"))
          @@ ("actual" :> Str("n/a")) @@ ("actual_sales" :> Str("100.125"))
          @@ ("projected" :> None) @@ ("forecast" :> Num(FloatOfEighths(1)))
          @@ ("forecast_total" :> Num(FloatOfInt(9))),
      ("day" :> Str("2024-02-29")) @@ ("actuals_total" :> Num(FloatOfInt(120)))
          @@ ("projected_total" :> Num(FloatOfInt(100))),
      ("sales_date" :> Str("2024-03-11")) @@ ("actual" :> Num(FloatOfInt(50)))
          @@ ("projected" :> Num(FloatOfEighths(59))),
      ("actual" :> Num(FloatOfInt(3))) @@ ("projected" :> Str("oops")) }

RowLists == UNION {[1..n -> RecordSet] : n \in 0..MaxRows}

Failures ==
    { Raised("HTTPSConnectionPool(host='api.7shifts.com', port=443): Read timed out. (read timeout=60)"),
      Response(404, "Not Found", NotJson),
      Response(200, NotJson.v, NotJson),
      Response(200, "{'data': 'oops'}", JDict("data" :> JText("oops"))) }

Successes ==
    UNION { { Response(200, "", JDict("data" :> JList(rs))),
              Response(200, "", JList(rs)),
              Response(200, "", JDict("sales" :> JList(rs))),
              Response(200, "",
                       JDict(("data" :> JList(rs)) @@ ("sales" :> JList(<<>>)))) }
            : rs \in RowLists }

Responses == Failures \cup Successes

\* the one document the store holds before the run
Store0 ==
    "workspaces/tulia/weeks/2024-03-04" :>
        (  (<<"purchases", "mon">> :> "812.40")
        @@ (<<"settings", "food_pct">> :> "0.30")
        @@ (<<"meta", "owner">> :> "chef")
        @@ (<<"meta", "source">> :> "manual")
        @@ (<<"data", "labor", "mon">> :> "300.00")
        @@ (<<"data", "proj_sales", "mon">> :> "1.00")
        @@ (<<"data", "proj_sales", "note">> :> "typed in by hand") )

Init ==
    /\ environ \in Environments
    /\ now_local \in Todays
    /\ store = Store0
    /\ pc = "start"
    /\ requests = <<>>
    /\ idx = 0
    /\ r = None
    /\ last_error = None
    /\ rows = <<>>
    /\ actual_map = <<>>
    /\ proj_map = <<>>
    /\ proj_week = <<>>
    /\ actual_week = <<>>
    /\ delta = <<>>
    /\ outcome = None

(***************************************************************************)
(* The run                                                                 *)
(***************************************************************************)
\* main, lines 107-114: read the environment, exit 2 when a value is missing
CheckConfig ==
    /\ pc = "start"
    /\ IF MissingEnv
       THEN /\ pc' = "exit"
            /\ outcome' = [exit |-> 2]
            /\ idx' = idx
       ELSE /\ pc' = "request"
            /\ outcome' = outcome
            /\ idx' = 1
    /\ UNCHANGED <<environ, now_local, store, requests, r, last_error, rows,
                   actual_map, proj_map, proj_week, actual_week, delta>>

\* fetch_sales, line 61: the request to the current candidate and its outcome
Request ==
    /\ pc = "request"
    /\ \E resp \in Responses : r' = resp
    /\ requests' = Append(requests, urls[idx])
    /\ pc' = "response"
    /\ UNCHANGED <<environ, now_local, store, idx, last_error, rows,
                   actual_map, proj_map, proj_week, actual_week, delta, outcome>>

\* fetch_sales, lines 62-71: a 200 with a recognized envelope returns its
\* array; the locals of fetch_sales are gone
ReturnRows ==
    /\ pc = "response"
    /\ Succeeds(r)
    /\ rows' = Normalize(r.js)
    /\ pc' = "aggregate"
    /\ r' = None
    /\ last_error' = None
    /\ idx' = 0
    /\ UNCHANGED <<environ, now_local, store, requests, actual_map, proj_map,
                   proj_week, actual_week, delta, outcome>>

\* RecordError with the bug of appending to last_error instead of replacing it
RecordErrorJoined ==
    /\ pc = "response"
    /\ ~Succeeds(r)
    /\ last_error' = (IF idx = 1 THEN "" ELSE last_error \o "; ")
                         \o ErrorText(urls[idx], r)
    /\ idx' = idx + 1
    /\ pc' = IF idx < Len(urls) THEN "request" ELSE "exhausted"
    /\ UNCHANGED <<environ, now_local, store, requests, r, rows, actual_map,
                   proj_map, proj_week, actual_week, delta, outcome>>

\* fetch_sales, lines 72-76: anything else is stored in last_error and the
\* loop goes to the next candidate
RecordError ==
    /\ pc = "response"
    /\ ~Succeeds(r)
    /\ last_error' = ErrorText(urls[idx], r)
    /\ idx' = idx + 1
    /\ pc' = IF idx < Len(urls) THEN "request" ELSE "exhausted"
    /\ UNCHANGED <<environ, now_local, store, requests, r, rows, actual_map,
                   proj_map, proj_week, actual_week, delta, outcome>>

\* fetch_sales, line 77: the loop ended without a return
RaiseAllFailed ==
    /\ pc = "exhausted"
    /\ outcome' = [exc |-> "RuntimeError", msg |-> AllFailed(last_error)]
    /\ pc' = "raised"
    /\ UNCHANGED <<environ, now_local, store, requests, idx, r, last_error,
                   rows, actual_map, proj_map, proj_week, actual_week, delta>>

\* main, lines 129-140
Aggregate ==
    /\ pc = "aggregate"
    /\ actual_map' = AddRows(rows, 1, <<actual_map, proj_map>>)[1]
    /\ proj_map' = AddRows(rows, 1, <<actual_map, proj_map>>)[2]
    /\ pc' = "build"
    /\ UNCHANGED <<environ, now_local, store, requests, idx, r, last_error,
                   rows, proj_week, actual_week, delta, outcome>>

\* main, lines 142-143
BuildWeeks ==
    /\ pc = "build"
    /\ proj_week' = build_week_shape(monday, proj_map)
    /\ actual_week' = build_week_shape(monday, actual_map)
    /\ pc' = "delta"
    /\ UNCHANGED <<environ, now_local, store, requests, idx, r, last_error,
                   rows, actual_map, proj_map, delta, outcome>>

\* main, lines 146-149
ComputeDelta ==
    /\ pc = "delta"
    /\ delta' = DeltaOf(actual_week, proj_week)
    /\ pc' = "upsert"
    /\ UNCHANGED <<environ, now_local, store, requests, idx, r, last_error,
                   rows, actual_map, proj_map, proj_week, actual_week, outcome>>

\* main, lines 152-172
Upsert ==
    /\ pc = "upsert"
    /\ \E updatedAt \in UtcNows :
          store' = (doc_path :> SetMerge(IF doc_path \in DOMAIN store
                                         THEN store[doc_path] ELSE <<>>,
                                         Payload(updatedAt))) @@ store
    /\ pc' = "done"
    /\ outcome' = [exit |-> 0]
    /\ UNCHANGED <<environ, now_local, requests, idx, r, last_error, rows,
                   actual_map, proj_map, proj_week, actual_week, delta>>

Next ==
    \/ CheckConfig
    \/ Request
    \/ ReturnRows
    \/ RecordError
    \/ RaiseAllFailed
    \/ Aggregate
    \/ BuildWeeks
    \/ ComputeDelta
    \/ Upsert

Spec == Init /\ [][Next]_vars

(***************************************************************************)
(* The floats of a run stay where DecOfFloat is exact.                     *)
(***************************************************************************)
FloatInDomain(x) ==
    \/ BigLess(x, BigMulSmall(BigPow2(46), EighthsPerUnit))
    \/ /\ ~BigLess(x, TwoTo52)
       /\ ~BigLess(BigMulSmall(BigPow2(54), EighthsPerUnit), x)
       /\ BigModSmall(x, EighthsPerUnit) = 0

FloatDomainOK ==
    /\ \A d \in DOMAIN actual_map : FloatInDomain(actual_map[d])
    /\ \A d \in DOMAIN proj_map : FloatInDomain(proj_map[d])

(***************************************************************************)
(* Properties                                                              *)
(***************************************************************************)
StartsWith(s, prefix) ==
    Len(prefix) <= Len(s) /\ SubSeq(s, 1, Len(prefix)) = prefix

Contains(s, part) ==
    \E i \in 1..(Len(s) - Len(part) + 1) : SubSeq(s, i, i + Len(part) - 1) = part

\* a 200 response whose body is one of the three envelopes
C1_Answered(resp) ==
    /\ resp.kind = "http"
    /\ resp.status = 200
    /\ \/ resp.js.t = "list"
       \/ /\ resp.js.t = "dict"
          /\ \E key \in {"data", "sales"} :
                key \in DOMAIN resp.js.v /\ resp.js.v[key].t = "list"

\* the array of the first envelope that fits: {data: [...]}, then a bare
\* array, then {sales: [...]}
C1_Array(js) ==
    IF js.t = "dict" /\ "data" \in DOMAIN js.v /\ js.v["data"].t = "list"
    THEN js.v["data"].v
    ELSE IF js.t = "list" THEN js.v
    ELSE js.v["sales"].v

\* C1: fetch_sales asks the candidates in their fixed order, one request
\* each.  A candidate that answers anything but a 200 with a recognized
\* envelope (another status, a body that is no JSON or no known envelope, a
\* transport failure) has its error recorded and the next candidate is asked;
\* the first candidate that answers a 200 with a recognized envelope makes the
\* call return that envelope's array (data, then bare array, then sales), no
\* later candidate is asked, and the call raises only after every candidate
\* was asked and failed.
C1_FetchOrder ==
    /\ [](requests = SubSeq(urls, 1, Len(requests)))
    /\ [][ /\ pc = "request" => requests' = Append(requests, urls[Len(requests) + 1])
           /\ pc # "request" => requests' = requests
           /\ pc = "response" /\ C1_Answered(r)
                => pc' = "aggregate" /\ rows' = C1_Array(r.js) /\ outcome' = outcome
           /\ pc = "response" /\ ~C1_Answered(r)
                => /\ StartsWith(last_error', urls[Len(requests)] \o " -> ")
                   /\ pc' = IF Len(requests) < Len(urls) THEN "request"
                            ELSE "exhausted"
           /\ pc' = "raised" => pc = "exhausted" /\ Len(requests) = Len(urls)
         ]_vars

\* the second candidate answered after the first one failed, and its rows
\* were returned
C1_Witness == pc = "aggregate" /\ Len(requests) = 2 /\ Len(rows) > 0

C10_Missing ==
    \E n \in {"SEVENSHIFTS_TOKEN", "COMPANY_ID", "LOCATION_ID"} :
        n \notin DOMAIN environ \/ environ[n] \in {None, Str("")}

\* C10: when the API token, the company id or the location id is absent or
\* empty, the run ends as a failure before any network activity: no request
\* is made to a sales endpoint and the destination document is not written.
C10_NoNetworkWithoutConfig ==
    C10_Missing =>
        /\ requests = <<>>
        /\ store = Store0
        /\ pc \in {"start", "exit"}
        /\ pc = "exit" => outcome = [exit |-> 2]

C10_Witness == pc = "exit" /\ environ["LOCATION_ID"] = Str("") /\ Truthy(token)

\* the week shapes have just been built
Built == pc = "delta"

\* the raw value of the i-th day of the window in a day bucket
C3_Raw(day_map, i) ==
    LET iso == to_iso(PlusDays(monday, i - 1)) IN
    DecOfFloat(IF iso \in DOMAIN day_map THEN day_map[iso] ELSE FloatZero)

\* the exact sum of the raw values of the days i..7 of the window
RECURSIVE C3_RawSum(_, _)
C3_RawSum(day_map, i) ==
    IF i > 7 THEN DecZero ELSE DecAdd(C3_Raw(day_map, i), C3_RawSum(day_map, i + 1))

\* the exact sum of the day strings i..7 of a week shape
RECURSIVE C3_RoundedSum(_, _)
C3_RoundedSum(week, i) ==
    IF i > 7 THEN DecZero
    ELSE DecAdd(DecOfStr(week[keys[i]]), C3_RoundedSum(week, i + 1))

\* C3: the total slot of a week shape is the money formatting, applied once,
\* of the exact decimal sum of the 7 raw per-day values of the window, also
\* when those values carry more than 2 decimal digits.
C3_TotalOfRawSum ==
    Built =>
        /\ actual_week["total"] = money(C3_RawSum(actual_map, 1))
        /\ proj_week["total"] = money(C3_RawSum(proj_map, 1))

\* a week whose raw values have a third decimal digit and whose total is not
\* what adding its 7 day strings gives
C3_Witness ==
    /\ Built
    /\ proj_week["total"] # money(C3_RoundedSum(proj_week, 1))

\* two fractional digits, a half in the third one going up
C4_HalfUp(x) ==
    LET cents == BigDivSmall(BigAdd(x.mag, BigOf(5)), 10) IN
    (IF x.neg THEN "-" ELSE "")
        \o BigText(BigDivSmall(cents, 100)) \o "."
        \o Pad2(BigModSmall(cents, 100))

\* C4 as stated: every day slot and the total are the raw value with two
\* fractional digits under standard rounding, a half in the third fractional
\* digit going up.
C4_StandardRounding ==
    Built =>
        /\ \A i \in 1..7 :
              /\ actual_week[keys[i]] = C4_HalfUp(C3_Raw(actual_map, i))
              /\ proj_week[keys[i]] = C4_HalfUp(C3_Raw(proj_map, i))
        /\ actual_week["total"] = C4_HalfUp(C3_RawSum(actual_map, 1))
        /\ proj_week["total"] = C4_HalfUp(C3_RawSum(proj_map, 1))

\* the aliases of a row, by position, that are present with a value not None
C5_Present(row, aliases) ==
    {i \in 1..Len(aliases) : aliases[i] \in DOMAIN row /\ row[aliases[i]] # None}

C5_Least(S) == CHOOSE i \in S : \A j \in S : i <= j

\* what C5 as stated has pick return
C5_Stated(row, aliases) ==
    LET S == C5_Present(row, aliases) IN
    IF S = {} THEN FloatZero
    ELSE LET v == row[aliases[C5_Least(S)]] IN
         IF Coercible(v) THEN PyFloat(v) ELSE FloatZero

\* what the code has pick return
C5_Coerced(row, aliases) ==
    LET S == {i \in C5_Present(row, aliases) : Coercible(row[aliases[i]])} IN
    IF S = {} THEN FloatZero ELSE PyFloat(row[aliases[C5_Least(S)]])

\* C5 as stated: pick returns the coerced value of the first alias that is
\* present with a non-null value and ignores every later alias; when that
\* value does not parse the field contributes the default 0.
C5_FirstPresentAlias ==
    pc = "build" =>
        /\ \A i \in 1..Len(rows) :
              /\ pick(rows[i], ActualKeys, 0) = C5_Stated(rows[i], ActualKeys)
              /\ pick(rows[i], ProjectedKeys, 0) = C5_Stated(rows[i], ProjectedKeys)
        /\ Len(rows) = 1 /\ Truthy(DateOf(rows[1])) =>
              /\ actual_map[DateOf(rows[1]).s] = C5_Stated(rows[1], ActualKeys)
              /\ proj_map[DateOf(rows[1]).s] = C5_Stated(rows[1], ProjectedKeys)

\* C5 as the code has it: pick returns the coerced value of the first alias,
\* in priority order, that is present, not null and parses as a number; an
\* alias whose value does not parse is passed over for the later aliases,
\* and the default 0 is returned only when no alias yields a number.
C5_FirstCoercibleAlias ==
    pc = "build" =>
        /\ \A i \in 1..Len(rows) :
              /\ pick(rows[i], ActualKeys, 0) = C5_Coerced(rows[i], ActualKeys)
              /\ pick(rows[i], ProjectedKeys, 0) = C5_Coerced(rows[i], ProjectedKeys)
        /\ Len(rows) = 1 /\ Truthy(DateOf(rows[1])) =>
              /\ actual_map[DateOf(rows[1]).s] = C5_Coerced(rows[1], ActualKeys)
              /\ proj_map[DateOf(rows[1]).s] = C5_Coerced(rows[1], ProjectedKeys)

\* a single row whose first actual alias does not parse and whose later
\* alias gave the bucket its value
C5_Witness ==
    /\ pc = "build"
    /\ Len(rows) = 1
    /\ Get(rows[1], "actual") = Str("n/a")
    /\ actual_map["2024-03-05"] = FloatOfEighths(801)

WindowDates == {to_iso(PlusDays(monday, i)) : i \in 0..6}

C6_InWindow(row) == Truthy(DateOf(row)) /\ DateOf(row).s \in WindowDates

C6_Kept == AddRows(SelectSeq(rows, C6_InWindow), 1, << <<>>, <<>> >>)

\* C6: the week shapes are those of the record list with every record dated
\* outside the 7 days from the anchor Monday removed, slot by slot and in the
\* total; a window day with no record has the slot "0.00".
C6_OutOfWindowIgnored ==
    Built =>
        /\ actual_week = build_week_shape(monday, C6_Kept[1])
        /\ proj_week = build_week_shape(monday, C6_Kept[2])
        /\ \A i \in 1..7 :
              (\A j \in 1..Len(rows) :
                    ~(Truthy(DateOf(rows[j]))
                        /\ DateOf(rows[j]).s = to_iso(PlusDays(monday, i - 1))))
                => actual_week[keys[i]] = "0.00" /\ proj_week[keys[i]] = "0.00"

\* a run with a record inside the window and a record with sales outside it
C6_Witness ==
    /\ Built
    /\ \E j \in 1..Len(rows) : C6_InWindow(rows[j])
    /\ \E j \in 1..Len(rows) :
          /\ Truthy(DateOf(rows[j]))
          /\ ~C6_InWindow(rows[j])
          /\ actual_map[DateOf(rows[j]).s] # FloatZero

\* a field of the document that lies outside meta and outside
\* data.proj_sales, data.actual_sales and data.sales_delta
C7_Other(p) ==
    \/ p[1] \notin {"meta", "data"}
    \/ /\ p[1] = "data"
       /\ Len(p) >= 2
       /\ p[2] \notin {"proj_sales", "actual_sales", "sales_delta"}

C7_Path ==
    "workspaces/"
        \o (IF Get(environ, "WORKSPACE") \in {None, Str("")} THEN "tulia"
            ELSE environ["WORKSPACE"].s)
        \o "/weeks/" \o to_iso(monday)

\* C7: the write goes to workspaces/{workspace}/weeks/{week-start-date} and
\* is a merge: every other top-level field and every sibling field under
\* data that the document held before has the same value afterwards, and no
\* other document changes.
C7_MergeKeepsOtherFields ==
    /\ \A path \in DOMAIN Store0 :
          /\ path \in DOMAIN store
          /\ path # C7_Path => store[path] = Store0[path]
          /\ \A p \in DOMAIN Store0[path] :
                C7_Other(p) =>
                    p \in DOMAIN store[path] /\ store[path][p] = Store0[path][p]
    /\ DOMAIN store \subseteq DOMAIN Store0 \cup {C7_Path}
    /\ pc = "done" =>
          /\ C7_Path \in DOMAIN store
          /\ \A k \in DOMAIN actual_week :
                /\ store[C7_Path][<<"data", "actual_sales", k>>] = actual_week[k]
                /\ store[C7_Path][<<"data", "proj_sales", k>>] = proj_week[k]
                /\ store[C7_Path][<<"data", "sales_delta", k>>] = delta[k]
          /\ store[C7_Path][<<"meta", "source">>] = "7shifts"

\* the write went to a document that already held purchases and other fields
C7_Witness ==
    /\ pc = "done"
    /\ C7_Path \in DOMAIN Store0
    /\ store[C7_Path] # Store0[C7_Path]
    /\ <<"purchases", "mon">> \in DOMAIN Store0[C7_Path]

\* C8: for each of the 7 weekday slots and for total, the delta slot is the
\* money formatting of the exact decimal difference actual slot - projected
\* slot of the two week shapes' money strings; 120.00 against 100.00 gives
\* "20.00".
C8_DeltaIsActualMinusProjected ==
    pc = "upsert" =>
        /\ DOMAIN delta = {keys[i] : i \in 1..7} \cup {"total"}
        /\ \A k \in DOMAIN delta :
              /\ DecAdd(DecOfStr(proj_week[k]), DecOfStr(delta[k]))
                    = DecOfStr(actual_week[k])
              /\ money(DecOfStr(delta[k])) = delta[k]
              /\ actual_week[k] = "120.00" /\ proj_week[k] = "100.00"
                    => delta[k] = "20.00"

\* 120.00 against 100.00 on one day and in the total
C8_Witness ==
    /\ pc = "upsert"
    /\ actual_week["thu"] = "120.00" /\ proj_week["thu"] = "100.00"
    /\ actual_week["total"] = "120.00" /\ proj_week["total"] = "100.00"
    /\ delta["thu"] = "20.00" /\ delta["total"] = "20.00"

\* the orders of the numbers 1..n
Perms(n) == {f \in [1..n -> 1..n] : \A i, j \in 1..n : f[i] = f[j] => i = j}

C9_Maps(f) == AddRows([i \in 1..Len(rows) |-> rows[f[i]]], 1, << <<>>, <<>> >>)

\* C9 as stated: accumulating any permutation of the record list and
\* building the week shapes gives the same actual and projected week shapes.
C9_OrderIndependent ==
    Built =>
        \A f \in Perms(Len(rows)) :
            /\ build_week_shape(monday, C9_Maps(f)[1]) = actual_week
            /\ build_week_shape(monday, C9_Maps(f)[2]) = proj_week

====
